---- MODULE Spec2Model ----
(***************************************************************************)
(* Model of the FlyingKFarms Streamlit application (src/app.py):           *)
(*   - run_irrigation_simulation, the daily water-balance loop;            *)
(*   - the memoized fetch_openet_variable, the fetch-and-merge block and   *)
(*     the simulation display block of the main script.                    *)
(*                                                                         *)
(* Water depths are fixed-point integers in hundredths of an inch          *)
(* (6.0 in = 600).  A table cell is <<v>> for a value and <<>> for NaN.    *)
(* A calendar date is the integer yyyymmdd.  Python's row number i is the  *)
(* TLA+ index i + 1: the seed row 0 of the code is row 1 here.             *)
(***************************************************************************)
EXTENDS Integers, Sequences, FiniteSets, TLC

VARIABLES
    \* ---- run_irrigation_simulation(df) ----
    df,                 \* the argument table
    sim_df,             \* the working copy (src/app.py:137)
    i,                  \* the loop variable of src/app.py:148 (1-based row)
    pc,                 \* position in the function: "start", "loop", "done"
    locs,               \* per row, the locals prev_paw / current_paw of its iteration
    outcome,            \* "running", "returned" or the name of the error raised
    \* ---- main script ----
    cache,              \* st.cache_data store of fetch_openet_variable
    session_state,      \* st.session_state['data_<section>']
    selected_section,   \* the selectbox of src/app.py:231
    results,            \* et_df / ndvi_df / precip_df of the current script run
    responses,          \* what the OpenET API answered in the current script run
    shown               \* what the simulation display block rendered

simVars == <<df, sim_df, i, pc, locs, outcome>>
appVars == <<cache, session_state, selected_section, results, responses, shown>>
vars == <<df, sim_df, i, pc, locs, outcome,
          cache, session_state, selected_section, results, responses, shown>>

----------------------------------------------------------------------------
(* Cells, dates, column names *)

NaN == <<>>
Cell(v) == <<v>>
IsNaN(c) == c = <<>>
Val(c) == c[1]

Year(d) == d \div 10000
Month(d) == (d \div 100) % 100
Day(d) == d % 100

ET_COL == "ET (in)"
NDVI_COL == "NDVI"
PR_COL == "Precipitation (in)"
PAW_COL == "Plant Available Water (in)"
IRR_COL == "Irrigation Applied (in)"
CG_COL == "Consumed Groundwater (in)"

Min(a, b) == IF a < b THEN a ELSE b
Max(a, b) == IF a > b THEN a ELSE b

\* Python's tuple comparison a <= b on pairs
TupleLE(a, b) == a[1] < b[1] \/ (a[1] = b[1] /\ a[2] <= b[2])

----------------------------------------------------------------------------
(* run_irrigation_simulation                                               *)

MAX_PAW == 600
IRRIGATION_TRIGGER_LEVEL == (3 * MAX_PAW) \div 5
MAX_DAILY_IRRIGATION == 25

\* Series.fillna(0)
fillna(c) == IF IsNaN(c) THEN Cell(0) ELSE c

is_in_season_month_only(d) == 5 <= Month(d) /\ Month(d) <= 9
\* (5, 25) <= (date.month, date.day) <= (9, 20)
is_in_season(d) ==
    TupleLE(<<5, 25>>, <<Month(d), Day(d)>>) /\ TupleLE(<<Month(d), Day(d)>>, <<9, 20>>)

\* prev_paw after the reset on the first day of the season
ResetPrevPaw(prev_paw, current_date, prev_date) ==
    IF is_in_season(current_date) /\ ~is_in_season(prev_date) THEN MAX_PAW ELSE prev_paw

TriggerReachedStrict(current_paw) == current_paw < IRRIGATION_TRIGGER_LEVEL
\* if current_paw <= IRRIGATION_TRIGGER_LEVEL
TriggerReached(current_paw) == current_paw <= IRRIGATION_TRIGGER_LEVEL

IrrigationToday(current_paw, current_date) ==
    IF is_in_season(current_date) /\ TriggerReached(current_paw)
    THEN Min(MAX_PAW - current_paw, MAX_DAILY_IRRIGATION)
    ELSE 0

FinalPawNoFloor(current_paw, irrigation_today) == Min(current_paw + irrigation_today, MAX_PAW)
\* final_paw = max(0, min(current_paw + irrigation_today, MAX_PAW))
FinalPaw(current_paw, irrigation_today) ==
    Max(0, Min(current_paw + irrigation_today, MAX_PAW))

\* The copy, the two fillna calls and the two initialised columns
InitColumns(rows) ==
    [k \in 1..Len(rows) |->
        [c \in (DOMAIN rows[k]) \cup {PAW_COL, IRR_COL} |->
            IF c = PAW_COL THEN Cell(MAX_PAW)
            ELSE IF c = IRR_COL THEN Cell(0)
            ELSE IF c \in {ET_COL, PR_COL} THEN fillna(rows[k][c])
            ELSE rows[k][c]]]

\* The locals of iteration k of the loop
Locals(sdf, k) ==
    LET prev_paw == ResetPrevPaw(Val(sdf[k-1][PAW_COL]), sdf[k].date, sdf[k-1].date)
        current_paw == prev_paw - Val(sdf[k][ET_COL]) + Val(sdf[k][PR_COL])
        irrigation_today == IrrigationToday(current_paw, sdf[k].date)
    IN  [prev_paw |-> prev_paw,
         current_paw |-> current_paw,
         irrigation_today |-> irrigation_today,
         final_paw |-> FinalPaw(current_paw, irrigation_today)]

\* One iteration of the loop: the two cells of row k it stores
LoopBody(sdf, k) ==
    LET l == Locals(sdf, k)
    IN  [sdf EXCEPT ![k] = [@ EXCEPT ![PAW_COL] = Cell(l.final_paw),
                                     ![IRR_COL] = Cell(l.irrigation_today)]]

RECURSIVE Loop(_, _)
Loop(sdf, k) == IF k > Len(sdf) THEN sdf ELSE Loop(LoopBody(sdf, k), k + 1)

NoCarry(s) == s
RECURSIVE cumsum(_)
\* Series.cumsum()
cumsum(s) ==
    IF s = <<>> THEN <<>>
    ELSE LET head == cumsum(SubSeq(s, 1, Len(s) - 1))
         IN  Append(head, (IF head = <<>> THEN 0 ELSE head[Len(head)]) + s[Len(s)])

\* sim_df['Consumed Groundwater (in)'] = sim_df['Irrigation Applied (in)'].cumsum()
AddConsumedGroundwater(sdf) ==
    LET total == cumsum([k \in 1..Len(sdf) |-> Val(sdf[k][IRR_COL])])
    IN  [k \in 1..Len(sdf) |->
            [c \in (DOMAIN sdf[k]) \cup {CG_COL} |->
                IF c = CG_COL THEN Cell(total[k]) ELSE sdf[k][c]]]

\* The whole function, as the display block calls it
run_irrigation_simulation(rows) == AddConsumedGroundwater(Loop(InitColumns(rows), 2))

----------------------------------------------------------------------------
(* run_irrigation_simulation as a state machine over an arbitrary table    *)

MaxRows == 3

SimDates == {20230919, 20230920, 20230921, 20240524, 20240525}
\* (ET, precipitation) of one row, either of which may be missing
Weather == {<<NaN, NaN>>, <<Cell(240), NaN>>, <<Cell(400), Cell(0)>>, <<Cell(0), Cell(100)>>}

InputRow(d, w) == ("date" :> d) @@ (ET_COL :> w[1]) @@ (PR_COL :> w[2])
InputRows == {InputRow(d, w) : d \in SimDates, w \in Weather}
InputTables == UNION {[1..n -> InputRows] : n \in 0..MaxRows}

NoLocals == [prev_paw |-> 0, current_paw |-> 0, irrigation_today |-> 0, final_paw |-> 0]

\* lines 137-145: copy, fillna, initialise the simulation columns
SimBegin ==
    /\ pc = "start"
    /\ sim_df' = InitColumns(df)
    /\ locs' = [k \in 1..Len(df) |-> NoLocals]
    /\ i' = 2
    /\ pc' = "loop"
    /\ UNCHANGED <<df, outcome>>
    /\ UNCHANGED appVars

\* lines 148-180: one iteration of the loop
SimLoopBody ==
    /\ pc = "loop"
    /\ i <= Len(sim_df)
    /\ sim_df' = LoopBody(sim_df, i)
    /\ locs' = [locs EXCEPT ![i] = Locals(sim_df, i)]
    /\ i' = i + 1
    /\ UNCHANGED <<df, pc, outcome>>
    /\ UNCHANGED appVars

\* lines 183-184: the cumulative column and the return
SimReturn ==
    /\ pc = "loop"
    /\ i > Len(sim_df)
    /\ sim_df' = AddConsumedGroundwater(sim_df)
    /\ pc' = "done"
    /\ outcome' = "returned"
    /\ UNCHANGED <<df, i, locs>>
    /\ UNCHANGED appVars

----------------------------------------------------------------------------
(* The OpenET API, as fetch_openet_variable sees it                        *)

NumDates == 2

\* the days the API may report, oldest first
FetchDates == <<20240524, 20240525, 20240526, 20240527>>
DateSet == {FetchDates[k] : k \in 1..NumDates}

\* field_options: the sections of the shapefile, and each section's polygon
Sections == {"A", "B"}
Geometry(section) == <<"polygon", section>>

\* the three calls of the fetch block, in call order, and new_column_name of each
VarNames == <<"ET", "ndvi", "pr">>
VarSet == {"ET", "ndvi", "pr"}
ColumnOf(variable) ==
    IF variable = "ET" THEN ET_COL ELSE IF variable = "ndvi" THEN NDVI_COL ELSE PR_COL

\* start_date / end_date of the two date inputs
DateRanges == {<<FetchDates[1], FetchDates[NumDates]>>, <<FetchDates[NumDates], FetchDates[1]>>}

RECURSIVE SortedSeq(_)
SortedSeq(S) ==
    IF S = {} THEN <<>>
    ELSE LET m == CHOOSE x \in S : \A y \in S : x <= y
         IN  <<m>> \o SortedSeq(S \ {m})

\* the value the service holds for a variable on a day (hundredths; NDVI scaled)
ApiValue(variable, d) ==
    IF variable = "ET" THEN 250 ELSE IF variable = "pr" THEN 10 ELSE 12 * Day(d)

\* a response body: rows {"time": d, "<variable>": value or null}, for the days S,
\* the days in gaps carrying null (cloud-covered NDVI observations)
ApiRows(variable, S, gaps) ==
    LET ds == SortedSeq(S)
    IN  [k \in 1..Len(ds) |->
            [time |-> ds[k],
             value |-> IF ds[k] \in gaps THEN NaN ELSE Cell(ApiValue(variable, ds[k]))]]

FailureKinds == {"network_error", "http_error", "empty_body", "empty_list",
                 "no_time_field", "no_value_field"}

NotCalled == [kind |-> "not_called", geom |-> <<>>, rows |-> <<>>]

\* every answer the service may give to one request: a failure, or rows for some of
\* the days of the range, an NDVI series with at most one null observation
ApiResponses(variable, geometry, start_date, end_date) ==
    LET days == {d \in DateSet : start_date <= d /\ d <= end_date}
    IN  {[kind |-> k, geom |-> geometry, rows |-> <<>>] : k \in FailureKinds}
        \cup UNION {
            {[kind |-> "ok", geom |-> geometry, rows |-> ApiRows(variable, S, gaps)] :
                gaps \in (IF variable = "ndvi" THEN {{}} \cup {{d} : d \in S} ELSE {{}})} :
            S \in (SUBSET days) \ {{}}}

----------------------------------------------------------------------------
(* fetch_openet_variable                                                   *)

None == [kind |-> "None"]
Unbound == [kind |-> "unbound"]
Raised(error) == [kind |-> "raise", error |-> error]
IsFrame(r) == r.kind = "frame"

\* Series.interpolate(method='linear'): interior gaps are filled on the line between
\* their valid neighbours, trailing gaps with the last valid value, leading gaps stay
interpolate(cells) ==
    [j \in 1..Len(cells) |->
        IF ~IsNaN(cells[j]) THEN cells[j]
        ELSE LET before == {p \in 1..(j-1) : ~IsNaN(cells[p])}
                 after == {q \in (j+1)..Len(cells) : ~IsNaN(cells[q])}
             IN  IF before = {} THEN NaN
                 ELSE LET p == CHOOSE x \in before : \A y \in before : y <= x
                      IN  IF after = {} THEN cells[p]
                          ELSE LET q == CHOOSE x \in after : \A y \in after : x <= y
                               IN  Cell(Val(cells[p])
                                        + ((Val(cells[q]) - Val(cells[p])) * (j - p)) \div (q - p))]

\* the body of the function (lines 84-126) on one response of the service
FetchBody(variable, new_column_name, response) ==
    IF response.kind \in {"network_error", "http_error", "empty_body"}
        THEN None                           \* except RequestException: return None
                                            \* (post, raise_for_status, and json() on
                                            \* an empty body: requests' JSONDecodeError)
    ELSE IF response.kind = "empty_list"
        THEN None                           \* if df.empty: return None
    ELSE IF response.kind = "no_time_field"
        THEN Raised("KeyError")             \* df['time'], outside the except clause
    ELSE IF response.kind = "no_value_field"
        THEN Raised("KeyError")             \* df[new_column_name]
    ELSE LET raw == [k \in 1..Len(response.rows) |-> response.rows[k].value]
             col == IF variable = "ndvi" THEN interpolate(raw) ELSE raw
         IN  [kind |-> "frame",
              cols |-> <<new_column_name>>,
              geom |-> (new_column_name :> response.geom),
              rows |-> [k \in 1..Len(response.rows) |->
                          ("date" :> response.rows[k].time) @@ (new_column_name :> col[k])]]

\* @st.cache_data hashes the arguments whose names do not start with an underscore;
\* api_key, new_column_name, model and units are fixed by the variable at the call sites
CacheKey(_section_name, _geometry, start_date, end_date, variable) ==
    <<start_date, end_date, variable>>

\* the answers that one call can meet: none when the cache serves it
ResponsesFor(c, _section_name, start_date, end_date, variable) ==
    IF CacheKey(_section_name, Geometry(_section_name), start_date, end_date, variable)
           \in DOMAIN c
    THEN {NotCalled}
    ELSE ApiResponses(variable, Geometry(_section_name), start_date, end_date)

\* one call of the memoized function: the value returned and the cache afterwards
\* (a call that raises stores nothing)
fetch_openet_variable(c, _section_name, start_date, end_date, variable, response) ==
    LET key == CacheKey(_section_name, Geometry(_section_name), start_date, end_date, variable)
    IN  IF key \in DOMAIN c THEN [ret |-> c[key], cache |-> c]
        ELSE LET r == FetchBody(variable, ColumnOf(variable), response)
             IN  IF r.kind = "raise" THEN [ret |-> r, cache |-> c]
                 ELSE [ret |-> r, cache |-> (key :> r) @@ c]

----------------------------------------------------------------------------
(* The fetch-and-merge block and the display block of the main script      *)

Absent == [kind |-> "absent"]

RowDates(frame) == {frame.rows[k].date : k \in 1..Len(frame.rows)}
ColSet(frame) == {frame.cols[k] : k \in 1..Len(frame.cols)}

\* the cell of column c on day d, NaN when the frame has no row for d
CellAt(frame, d, c) ==
    IF d \in RowDates(frame)
    THEN frame.rows[CHOOSE k \in 1..Len(frame.rows) : frame.rows[k].date = d][c]
    ELSE NaN

MergedFrame(left, right, dates) ==
    LET ds == SortedSeq(dates)
    IN  [kind |-> "frame",
         cols |-> left.cols \o right.cols,
         geom |-> left.geom @@ right.geom,
         rows |-> [k \in 1..Len(ds) |->
                     [c \in {"date"} \cup ColSet(left) \cup ColSet(right) |->
                         IF c = "date" THEN ds[k]
                         ELSE IF c \in ColSet(left) THEN CellAt(left, ds[k], c)
                         ELSE CellAt(right, ds[k], c)]]]

InnerMerge(left, right) == MergedFrame(left, right, RowDates(left) \cap RowDates(right))
\* pd.merge(left, right, left_index=True, right_index=True, how='outer')
\* on two frames whose date indexes are ascending and unique
OuterMerge(left, right) == MergedFrame(left, right, RowDates(left) \cup RowDates(right))

RECURSIVE MergeFrom(_, _, _)
MergeFrom(combined_df, data_frames, k) ==
    IF k > Len(data_frames) THEN combined_df
    ELSE MergeFrom(OuterMerge(combined_df, data_frames[k]), data_frames, k + 1)

\* combined_df = data_frames[0]; for df in data_frames[1:]: combined_df = pd.merge(...)
Combine(data_frames) == MergeFrom(data_frames[1], data_frames, 2)

\* data_frames = [df for df in [et_df, ndvi_df, precip_df] if df is not None]
DataFrames(res) == SelectSeq([k \in 1..Len(VarNames) |-> res[VarNames[k]]], IsFrame)

\* del st.session_state[session_key], then the merged table when any fetch succeeded
Stored(state, section, res) ==
    IF DataFrames(res) # <<>>
    THEN [state EXCEPT ![section] = Combine(DataFrames(res))]
    ELSE [state EXCEPT ![section] = Absent]

CanSimulateAllThree(cols) == ET_COL \in cols /\ NDVI_COL \in cols /\ PR_COL \in cols
\* if 'ET (in)' in df_to_show.columns and 'Precipitation (in)' in df_to_show.columns
CanSimulate(cols) == ET_COL \in cols /\ PR_COL \in cols

\* lines 297-328: what the page shows for the selected section
DisplayBlock(state, section) ==
    LET df_to_show == state[section]
    IN  IF df_to_show.kind = "absent"
        THEN [kind |-> "nothing", warning |-> FALSE, cols |-> <<>>, rows |-> <<>>]
        ELSE IF CanSimulate(ColSet(df_to_show))
        THEN [kind |-> "simulation", warning |-> FALSE,
              cols |-> df_to_show.cols \o <<PAW_COL, IRR_COL, CG_COL>>,
              rows |-> run_irrigation_simulation(df_to_show.rows)]
        ELSE [kind |-> "missing_data", warning |-> TRUE,
              cols |-> df_to_show.cols, rows |-> df_to_show.rows]

\* an uncaught exception ends the script run before the display block
ExceptionShown == [kind |-> "exception", warning |-> FALSE, cols |-> <<>>, rows |-> <<>>]

NoResults == [v \in VarSet |-> Unbound]
NoResponses == [v \in VarSet |-> NotCalled]
EmptyCache == [k \in {} |-> None]

\* the button of line 266 with a valid date range: the three calls in order, the
\* merge, the store and the display block; a call that raises ends the run
ClickFetch(start_date, end_date) ==
    /\ start_date <= end_date
    /\ \E e \in ResponsesFor(cache, selected_section, start_date, end_date, "ET") :
         LET c1 == fetch_openet_variable(cache, selected_section, start_date, end_date, "ET", e)
             ok1 == c1.ret.kind # "raise"
         IN  \E n \in (IF ok1 THEN ResponsesFor(c1.cache, selected_section, start_date,
                                                end_date, "ndvi")
                       ELSE {NotCalled}) :
               LET c2 == IF ok1
                         THEN fetch_openet_variable(c1.cache, selected_section, start_date,
                                                    end_date, "ndvi", n)
                         ELSE [ret |-> Unbound, cache |-> c1.cache]
                   ok2 == ok1 /\ c2.ret.kind # "raise"
               IN  \E p \in (IF ok2 THEN ResponsesFor(c2.cache, selected_section, start_date,
                                                      end_date, "pr")
                             ELSE {NotCalled}) :
                     LET c3 == IF ok2
                               THEN fetch_openet_variable(c2.cache, selected_section,
                                                          start_date, end_date, "pr", p)
                               ELSE [ret |-> Unbound, cache |-> c2.cache]
                         ok3 == ok2 /\ c3.ret.kind # "raise"
                         res == [v \in VarSet |->
                                    IF v = "ET" THEN c1.ret
                                    ELSE IF v = "ndvi" THEN c2.ret ELSE c3.ret]
                     IN  /\ cache' = c3.cache
                         /\ responses' = [v \in VarSet |->
                                             IF v = "ET" THEN e ELSE IF v = "ndvi" THEN n ELSE p]
                         /\ results' = res
                         /\ session_state' = IF ok3
                                             THEN Stored(session_state, selected_section, res)
                                             ELSE session_state
                         /\ shown' = IF ok3
                                     THEN DisplayBlock(session_state', selected_section)
                                     ELSE ExceptionShown
    /\ UNCHANGED selected_section
    /\ UNCHANGED simVars

\* the button with start_date > end_date: the warning of line 265, no fetch
ClickInvalidRange(start_date, end_date) ==
    /\ start_date > end_date
    /\ results' = NoResults
    /\ responses' = NoResponses
    /\ shown' = DisplayBlock(session_state, selected_section)
    /\ UNCHANGED <<cache, session_state, selected_section>>
    /\ UNCHANGED simVars

\* another section chosen in the selectbox: a script run without the button
SelectSection(section) ==
    /\ selected_section' = section
    /\ results' = NoResults
    /\ responses' = NoResponses
    /\ shown' = DisplayBlock(session_state, section)
    /\ UNCHANGED <<cache, session_state>>
    /\ UNCHANGED simVars

\* "Clear Cache & Reload Data": both stores are emptied and the script reruns
ClearCache ==
    /\ cache' = EmptyCache
    /\ session_state' = [s \in Sections |-> Absent]
    /\ selected_section' \in Sections
    /\ results' = NoResults
    /\ responses' = NoResponses
    /\ shown' = DisplayBlock(session_state', selected_section')
    /\ UNCHANGED simVars

----------------------------------------------------------------------------
(* Specifications                                                          *)

AppStart ==
    /\ cache = EmptyCache
    /\ session_state = [s \in Sections |-> Absent]
    /\ selected_section = "A"
    /\ results = NoResults
    /\ responses = NoResponses
    /\ shown = DisplayBlock(session_state, selected_section)

SimIdle ==
    /\ df = <<>>
    /\ sim_df = <<>>
    /\ i = 0
    /\ pc = "idle"
    /\ locs = <<>>
    /\ outcome = "idle"

\* the application after its first script run
Init == AppStart /\ SimIdle

Next ==
    \/ \E r \in DateRanges : ClickFetch(r[1], r[2])
    \/ \E r \in DateRanges : ClickInvalidRange(r[1], r[2])
    \/ \E s \in Sections : SelectSection(s)
    \/ ClearCache

Spec == Init /\ [][Next]_vars

\* run_irrigation_simulation called on any table of at most MaxRows rows
InitSim ==
    /\ AppStart
    /\ df \in InputTables
    /\ sim_df = <<>>
    /\ i = 0
    /\ pc = "start"
    /\ locs = <<>>
    /\ outcome = "running"

NextSim == SimBegin \/ SimLoopBody \/ SimReturn

SpecSim == InitSim /\ [][NextSim]_vars

----------------------------------------------------------------------------
(* Properties of run_irrigation_simulation (checked under SpecSim)         *)

\* The pumping season as the specification words it: May 25 - September 20 inclusive
InPumpingSeason(d) ==
    \/ Month(d) = 5 /\ Day(d) >= 25
    \/ Month(d) \in 6..8
    \/ Month(d) = 9 /\ Day(d) <= 20

Rows == 1..Len(sim_df)
DateOf(k) == sim_df[k].date
Paw(k) == Val(sim_df[k][PAW_COL])
Irr(k) == Val(sim_df[k][IRR_COL])
Consumed(k) == Val(sim_df[k][CG_COL])
\* ET and precipitation of input row k, a missing value counted as 0
InputOf(k, c) == IF IsNaN(df[k][c]) THEN 0 ELSE Val(df[k][c])
\* the rows whose iteration of the loop has run
Simulated == {k \in Rows : k >= 2 /\ (pc = "done" \/ k < i)}

\* C1: every row of the result, the seed row included, has
\* 0 <= Plant Available Water <= MAX_PAW, whatever ET and precipitation the rows carry.
C1_PawWithinBounds ==
    pc \in {"loop", "done"} =>
        /\ Len(sim_df) = Len(df)
        /\ \A k \in Rows : 0 <= Paw(k) /\ Paw(k) <= MAX_PAW

\* a finished run in which the balance after irrigation fell below zero and was clamped
C1_Witness ==
    /\ pc = "done"
    /\ \E k \in Rows :
         /\ k >= 2
         /\ locs[k].current_paw + locs[k].irrigation_today < 0
         /\ Paw(k) = 0

\* C2: Consumed Groundwater is the running total of Irrigation Applied: it starts at 0,
\* grows by each row's irrigation and never decreases.
C2_ConsumedIsRunningTotal ==
    pc = "done" =>
        \A k \in Rows :
            IF k = 1 THEN Consumed(k) = 0
            ELSE /\ Consumed(k) = Consumed(k-1) + Irr(k)
                 /\ Consumed(k) >= Consumed(k-1)

\* a finished run that irrigated on two days
C2_Witness ==
    /\ pc = "done"
    /\ Len(sim_df) = 3
    /\ Irr(2) > 0
    /\ Irr(3) > 0
    /\ Consumed(3) = 2 * MAX_DAILY_IRRIGATION

\* C3: a row dated outside May 25 - September 20 gets no irrigation, whatever its water
\* balance and its year, and leaves Consumed Groundwater where the previous row left it.
C3_NoIrrigationOutOfSeason ==
    \A k \in Rows :
        ~InPumpingSeason(DateOf(k)) =>
            /\ pc \in {"loop", "done"} => Irr(k) = 0
            /\ pc = "done" => Consumed(k) = (IF k = 1 THEN 0 ELSE Consumed(k-1))

\* a finished run with an out-of-season row whose balance is at or below the trigger
C3_Witness ==
    /\ pc = "done"
    /\ \E k \in Rows :
         /\ k >= 2
         /\ ~InPumpingSeason(DateOf(k))
         /\ locs[k].current_paw <= IRRIGATION_TRIGGER_LEVEL
         /\ Irr(k) = 0
         /\ Consumed(k) = Consumed(k-1)

\* the table's dates strictly ascending, as the merge leaves them
AscendingDates(t) == \A k \in 1..(Len(t) - 1) : t[k].date < t[k+1].date
\* row k is the first in-season row of its calendar year
FirstInSeasonRowOfYear(t, k) ==
    /\ InPumpingSeason(t[k].date)
    /\ \A j \in 1..(k-1) :
         ~(Year(t[j].date) = Year(t[k].date) /\ InPumpingSeason(t[j].date))

\* C4: in a date-ordered (possibly sparse, multi-year) table, the balance of every row
\* i >= 1 that is the first in-season row of its calendar year is computed from
\* prevPAW = MAX_PAW, not from the previous row's Plant Available Water.
C4_ResetEveryYear ==
    (pc = "done" /\ AscendingDates(df)) =>
        \A k \in Rows :
            (k >= 2 /\ FirstInSeasonRowOfYear(df, k)) =>
                /\ locs[k].prev_paw = MAX_PAW
                /\ locs[k].current_paw = MAX_PAW - InputOf(k, ET_COL) + InputOf(k, PR_COL)

\* C5: on a table whose rows are not in ascending date order the simulator raises or
\* reports an error and returns no simulation columns.
C5_UnsortedInputRejected ==
    (\E k \in 1..(Len(df) - 1) : df[k].date > df[k+1].date) => outcome # "returned"

\* prevPAW of row k as the specification words it: the previous row's Plant Available
\* Water, overridden by MAX_PAW when row k is in season and the previous row is not
SpecPrevPaw(k) ==
    IF InPumpingSeason(DateOf(k)) /\ ~InPumpingSeason(DateOf(k-1)) THEN MAX_PAW ELSE Paw(k-1)
SpecBalance(k) == SpecPrevPaw(k) - InputOf(k, ET_COL) + InputOf(k, PR_COL)

----------------------------------------------------------------------------
(* Properties of the fetch-and-merge and display blocks (checked under Spec) *)

\* the table stored for the selected section
StoredTable == session_state[selected_section]
\* the variables whose call returned a series in this script run
Fetched == {v \in VarSet : results[v].kind = "frame"}
\* the days variable v has an observation row for
Observed(v) == {results[v].rows[k].date : k \in 1..Len(results[v].rows)}
\* the cell the fetched series of v holds for day d
ObservedCell(v, d) ==
    results[v].rows[CHOOSE k \in 1..Len(results[v].rows) : results[v].rows[k].date = d]
                   [ColumnOf(v)]
\* all three calls of the fetch block returned, a series or None
CycleCompleted == \A v \in VarSet : results[v].kind \in {"None", "frame"}
\* the columns of the fetched variables, in the order of the calls
FetchedColumns ==
    (IF "ET" \in Fetched THEN <<ET_COL>> ELSE <<>>)
    \o (IF "ndvi" \in Fetched THEN <<NDVI_COL>> ELSE <<>>)
    \o (IF "pr" \in Fetched THEN <<PR_COL>> ELSE <<>>)

\* C6: whatever way one variable's fetch fails (network error, non-2xx status, empty
\* or malformed body), its result is None, the other two variables are still fetched,
\* and every series that was fetched is merged into the stored table.
C6_FailureIsPerVariable ==
    \A v \in VarSet :
        responses[v].kind \in FailureKinds =>
            /\ results[v] = None
            /\ \A w \in VarSet \ {v} : results[w].kind \in {"None", "frame"}
            /\ \A w \in Fetched :
                 /\ StoredTable.kind = "frame"
                 /\ ColumnOf(w) \in ColSet(StoredTable)

\* C7: the stored table is the full outer join of the fetched series on date: its dates
\* are the union of theirs, one row per date in ascending order, each cell the series'
\* own value or null where the variable has no observation, columns in call order.
C7_MergeIsOuterJoin ==
    (CycleCompleted /\ Fetched # {}) =>
        /\ StoredTable.kind = "frame"
        /\ StoredTable.cols = FetchedColumns
        /\ RowDates(StoredTable) = UNION {Observed(v) : v \in Fetched}
        /\ \A k \in 1..(Len(StoredTable.rows) - 1) :
             StoredTable.rows[k].date < StoredTable.rows[k+1].date
        /\ \A k \in 1..Len(StoredTable.rows) :
             /\ DOMAIN StoredTable.rows[k] = {"date"} \cup {ColumnOf(v) : v \in Fetched}
             /\ \A v \in Fetched :
                  StoredTable.rows[k][ColumnOf(v)] =
                      IF StoredTable.rows[k].date \in Observed(v)
                      THEN ObservedCell(v, StoredTable.rows[k].date)
                      ELSE NaN

\* three series with different days were merged, leaving a null in the ET column
C7_Witness ==
    /\ Fetched = VarSet
    /\ Observed("ET") # Observed("pr")
    /\ Observed("ndvi") # Observed("pr")
    /\ Len(StoredTable.rows) = NumDates
    /\ \E k \in 1..Len(StoredTable.rows) : IsNaN(StoredTable.rows[k][ET_COL])

\* the NDVI call returned None and the ET and precipitation calls returned series
NdviFailedOthersFetched ==
    /\ results["ndvi"] = None
    /\ results["ET"].kind = "frame"
    /\ results["pr"].kind = "frame"

\* the three columns the simulation appends
SimulationColumns == {PAW_COL, IRR_COL, CG_COL}
ShownColumns == {shown.cols[k] : k \in 1..Len(shown.cols)}

\* Whenever the display block runs: the simulation runs exactly when the stored table
\* has both the ET and the precipitation column; otherwise no simulation column is
\* produced and the missing data is reported.
SimulatesIffBothColumns ==
    shown.kind # "exception" =>
        /\ shown.kind = "simulation" <=>
               (StoredTable.kind = "frame"
                /\ ET_COL \in ColSet(StoredTable) /\ PR_COL \in ColSet(StoredTable))
        /\ shown.kind = "simulation" =>
               /\ SimulationColumns \subseteq ShownColumns
               /\ Len(shown.rows) = Len(StoredTable.rows)
               /\ \A k \in 1..Len(shown.rows) : SimulationColumns \subseteq DOMAIN shown.rows[k]
        /\ (StoredTable.kind = "frame" /\ shown.kind # "simulation") =>
               /\ shown.kind = "missing_data"
               /\ shown.warning
               /\ SimulationColumns \cap ShownColumns = {}
               /\ shown.rows = StoredTable.rows

C10_CacheKeepsSectionsApart ==
    /\ \A v \in Fetched : results[v].geom[ColumnOf(v)] = Geometry(selected_section)
    /\ \A s \in Sections :
         session_state[s].kind = "frame" =>
             \A c \in ColSet(session_state[s]) : session_state[s].geom[c] = Geometry(s)

====
